---------------------------- MODULE Spec2Model ----------------------------
(***************************************************************************)
(* Model of the YT-Archiver pipeline:                                      *)
(*   src/yt_archiver/state_manager.py   the Ledger (StateManager)          *)
(*   src/main.py                        process_video, process_videos and  *)
(*                                      the scheduler loop of main         *)
(*   src/yt_archiver/youtube_handler.py download_video (the Fetcher)       *)
(*   src/yt_archiver/rclone_handler.py  upload_file (the Uploader)         *)
(*                                                                         *)
(* Ten specifications share the module:                                    *)
(*   SpecLedger  the StateManager operations applied to a fresh store      *)
(*   Spec        sync passes: main's loop, process_videos, process_video   *)
(*   SpecLive    Spec under weak fairness, for termination                 *)
(*   SpecMain    pre-flight of main and the exit status of the process     *)
(*   SpecUpload  one upload_file call, step by step                        *)
(*   SpecLister  one fetch_video_list call over both sources               *)
(*   SpecLock    threads calling the StateManager through its lock         *)
(*   SpecPool    the worker pool of process_videos with many jobs          *)
(*   SpecFetch   one process_video frame, download_video step by step      *)
(*   SpecName    one sanitize_filename call                                *)
(***************************************************************************)
EXTENDS Integers, Sequences, FiniteSets, TLC

(***************************************************************************)
(* Bounds of the model.                                                    *)
(***************************************************************************)
NumIds == 2
MaxAddCalls == 3
MaxVideos == 2
MaxRetriesCfg == 2
MaxWorkersCfg == 2
MaxPasses == 2
MaxUploadRetries == 2
MaxFaults == 1

Ids == 1..NumIds
Titles == {"t1", "t2"}
Stamps == {"s1", "s2"}

VARIABLES
    ledger,             \* rows of table archived_videos
    lhist,              \* SpecLedger: call history of the StateManager
    max_retries,        \* [Archiver] max_retries
    max_workers,        \* [Archiver] max_workers
    dry_run,            \* [Archiver] dry_run
    shutdown_requested, \* main.py global flag
    mpc,                \* position of the coordinator thread in main / process_videos
    phase,              \* "initial" or "monitor"
    passNo,             \* number of passes that got past the filter
    videos,             \* the listing handed to process_videos
    jobs,               \* the futures of the pass and their process_video frames
    yielded,            \* futures already yielded by as_completed
    success_count,
    failure_count,
    phist,              \* Spec: history of the running pass
    up,                 \* SpecUpload: the frame of one upload_file call
    pre,                \* SpecMain: config.ini as found, and where pre-flight failed
    main_ret,           \* value returned by main: "none" while it runs
    exit_status,        \* exit status of the process: "running" until it ends
    faults,             \* exceptions of a pass caught by main so far
    prevFailed,         \* ids whose jobs failed in the pass before this one
    ls,                 \* SpecLister: one fetch_video_list call
    th,                 \* SpecLock: threads calling the StateManager, and its lock
    fx,                 \* SpecFetch: one process_video frame, download_video step by step
    sn                  \* SpecName: one sanitize_filename call

ledgerVars == <<ledger, lhist>>
cfgVars == <<max_retries, max_workers, dry_run>>
passVars == <<shutdown_requested, mpc, phase, passNo, videos, jobs, yielded,
              success_count, failure_count, phist>>
procVars == <<pre, main_ret, exit_status, faults, prevFailed>>
auxVars == <<ls, th, fx, sn>>
vars == <<ledger, lhist, max_retries, max_workers, dry_run, shutdown_requested,
          mpc, phase, passNo, videos, jobs, yielded, success_count,
          failure_count, phist, up, pre, main_ret, exit_status, faults, prevFailed,
          ls, th, fx, sn>>

(***************************************************************************)
(* The Ledger: StateManager over table archived_videos.                    *)
(***************************************************************************)
Row(id, title, stamp) ==
    [video_id |-> id, youtube_title |-> title, upload_timestamp |-> stamp]

Rows == [video_id : Ids, youtube_title : Titles, upload_timestamp : Stamps]

\* SELECT 1 FROM archived_videos WHERE video_id = ?  ... fetchone() is not None
is_archived(l, id) == \E r \in l : r.video_id = id

\* INSERT OR REPLACE: the row of an existing key is overwritten.
InsertOrReplace(l, row) ==
    {r \in l : r.video_id # row.video_id} \cup {row}

\* INSERT OR IGNORE under PRIMARY KEY video_id.
InsertOrIgnore(l, row) ==
    IF \E r \in l : r.video_id = row.video_id THEN l ELSE l \cup {row}

add_archived(l, id, title, stamp) == InsertOrIgnore(l, Row(id, title, stamp))

\* SELECT video_id FROM archived_videos
get_all_archived(l) == {r.video_id : r \in l}

RowsOf(l, id) == {r \in l : r.video_id = id}

NoCall == [called |-> FALSE]

IdleLedgerHist ==
    [first |-> [i \in Ids |-> NoCall], adds |-> [i \in Ids |-> 0],
     asked |-> 0, answer |-> FALSE]

IdlePass ==
    /\ max_retries = 0 /\ max_workers = 1 /\ dry_run = FALSE
    /\ shutdown_requested = FALSE
    /\ mpc = "off" /\ phase = "initial" /\ passNo = 0
    /\ videos = <<>> /\ jobs = <<>> /\ yielded = {}
    /\ success_count = 0 /\ failure_count = 0
    /\ phist = [off |-> TRUE]

IdleUpload == up = [pc |-> "off"]

IdleProc ==
    /\ pre = [off |-> TRUE]
    /\ main_ret = "none" /\ exit_status = "running"
    /\ faults = 0 /\ prevFailed = {}
    /\ ls = [off |-> TRUE] /\ th = [off |-> TRUE]
    /\ fx = [off |-> TRUE] /\ sn = [off |-> TRUE]

\* StateManager() on a new database file: _init_db creates the empty table.
InitLedger ==
    /\ ledger = {}
    /\ lhist = IdleLedgerHist
    /\ IdlePass
    /\ IdleUpload
    /\ IdleProc

\* A caller invokes add_archived(video_id, youtube_title, upload_timestamp).
AddArchived(id, title, stamp) ==
    /\ lhist.adds[id] < MaxAddCalls
    /\ ledger' = add_archived(ledger, id, title, stamp)
    /\ lhist' = [lhist EXCEPT
                   !.adds[id] = @ + 1,
                   !.first[id] = IF @.called THEN @
                                 ELSE [called |-> TRUE, row |-> Row(id, title, stamp)]]
    /\ UNCHANGED <<cfgVars, passVars, up, procVars, auxVars>>

\* A caller invokes is_archived(video_id); the answer is kept.
IsArchived(id) ==
    /\ lhist' = [lhist EXCEPT !.asked = id, !.answer = is_archived(ledger, id)]
    /\ UNCHANGED <<ledger, cfgVars, passVars, up, procVars, auxVars>>

NextLedger ==
    \/ \E id \in Ids, title \in Titles, stamp \in Stamps : AddArchived(id, title, stamp)
    \/ \E id \in Ids : IsArchived(id)

SpecLedger == InitLedger /\ [][NextLedger]_vars

(***************************************************************************)
(* C1. Ledger idempotency: once add_archived has been called for an id,    *)
(* however often and with whatever title and timestamp, the ledger holds   *)
(* exactly one row for the id, and it is the row of the first call.        *)
(* is_archived(id) is true from the first call on, and an is_archived     *)
(* call that answered true is never followed by a state where the id is    *)
(* not archived.                                                           *)
(***************************************************************************)
C1_Idempotent ==
    \A id \in Ids :
        /\ lhist.first[id].called =>
              /\ RowsOf(ledger, id) = {lhist.first[id].row}
              /\ is_archived(ledger, id)
        /\ (lhist.asked = id /\ lhist.answer) => is_archived(ledger, id)

C1_Witness ==
    \E id \in Ids :
        /\ lhist.adds[id] >= 2
        /\ lhist.first[id].called
        /\ lhist.asked = id /\ lhist.answer
        /\ Cardinality(ledger) = NumIds


(***************************************************************************)
(* Sync passes: process_video, process_videos and main's loop.             *)
(***************************************************************************)
\* Fields of the VideoInfo dataclass.
VideoInfoFields ==
    {"video_id", "title", "published_at", "duration", "filesize", "resolution"}

\* Attributes of video_info read when process_video builds the remote subpath.
RemotePathAttrs == {"channel_name", "published_at"}

\* Reading an attribute the dataclass lacks raises AttributeError.
RemotePathEvaluates == RemotePathAttrs \subseteq VideoInfoFields

\* Parameters of StateManager.add_archived (all required, no **kwargs).
AddArchivedParams == {"video_id", "youtube_title", "upload_timestamp"}

\* Keywords of the add_archived call in process_video.
CommitKeywords == {"video_id", "title", "published_at", "remote_path"}

\* A keyword call binds iff the keywords are exactly the required parameters;
\* otherwise Python raises TypeError before the body runs.
CommitCallBinds == CommitKeywords = AddArchivedParams

\* download_video's own default retry budget; process_video passes none.
DownloadRetries == 3

\* process_videos stops a dry run after this many counted results.
DryRunStop == 5

\* An attempt loop with an attempt before the retries.
AttemptRangeInitial(r) == 1..(r + 1)

\* range(1, max_retries + 1) of process_video.
AttemptRange(r) == 1..r

\* range(max_retries) in download_video: one attempt short.
DownloadAttemptsShort(r) == 0..(r - 1)

\* range(max_retries + 1) of download_video.
DownloadAttempts(r) == 0..r

\* executor.submit(process_video, video, yt, rclone, state_db, download_dir,
\* max_retries): dry_run is not among the arguments, so the worker runs with
\* the parameter's default.
SubmittedDryRun(d) == FALSE

\* A worker that never looks at the flag.
ShutdownCheckOff(flag) == FALSE

\* "if shutdown_requested:" at the head of every attempt of process_video.
ShutdownCheck(flag) == flag

\* Only the first unarchived video is dispatched.
VideosToProcessFirst(vs, l) ==
    LET t == SelectSeq(vs, LAMBDA v : ~is_archived(l, v))
    IN IF t = <<>> THEN t ELSE <<t[1]>>

\* No filtering: every listed video is dispatched.
VideosToProcessAll(vs, l) == vs

\* [v for v in videos if not state_db.is_archived(v.video_id)]
VideosToProcess(vs, l) == SelectSeq(vs, LAMBDA v : ~is_archived(l, v))

\* Leaving the with block without joining the workers.
WaitOnExitNoJoin(idle) == TRUE

\* An executor exit that never comes back.
WaitOnExitNever(idle) == FALSE

\* ThreadPoolExecutor.__exit__ is shutdown(wait=True): it returns only when
\* no worker thread is executing a job.
WaitOnExit(idle) == idle

\* Outcomes of one ydl.extract_info(url, download=True) attempt followed by
\* the caller's os.path.exists: "file" a filename that exists, "nofile" a
\* filename that does not exist, "fail" an exception or a falsy result.
FetchOutcomes == {"file", "nofile", "fail"}

\* What rclone.upload_file can hand back to process_video.
UploadOutcomes == {"success", "failure", "raise"}

\* The listings fetch_video_list may return: any sequence of ids (the Lister
\* does not deduplicate).  The long listing is there to reach DryRunStop; it
\* is offered to dry runs with a retry budget of zero, whose jobs are short.
RECURSIVE SeqsUpTo(_, _)
SeqsUpTo(S, n) ==
    IF n = 0 THEN {<<>>}
    ELSE LET shorter == SeqsUpTo(S, n - 1)
         IN shorter \cup {Append(s, x) : s \in {t \in shorter : Len(t) = n - 1}, x \in S}

LongListing == [i \in 1..(DryRunStop + 1) |-> 1]

Listings(r, d) ==
    SeqsUpTo(Ids, MaxVideos) \cup (IF r = 0 /\ d THEN {LongListing} ELSE {})

NewJob(id, d) ==
    [id |-> id, st |-> "queued", pc |-> "loop", attempt |-> 1,
     tries |-> 0, lastFetch |-> "none", nCalls |-> 0, allOk |-> TRUE,
     allFail |-> TRUE, failTries |-> 0, nUp |-> 0, upFail |-> FALSE,
     res |-> "none", late |-> FALSE, dry |-> SubmittedDryRun(d)]

JobIdx == 1..Len(jobs)
Running == {j \in JobIdx : jobs[j].st = "running"}
Queued == {j \in JobIdx : jobs[j].st = "queued"}
Completed == {j \in JobIdx : jobs[j].st \in {"returned", "cancelled"}}

NewPassHist(l, flag) ==
    [off |-> FALSE, ledger0 |-> l, shutdownAtStart |-> flag, firstDone |-> 0,
     counted |-> {}, broke |-> "no", runAtBreak |-> FALSE]

\* State at "Initial sync" of main (line 271): the three components exist and
\* the database file holds whatever earlier runs recorded.  The construction
\* that precedes it in main (lines 253-269) is not part of this specification
\* (SpecMain has it); the passes are modelled as main's loop drives them once
\* the components are there.  The signal handlers are installed at the top
\* of main, so the flag may already be set here.
InitPass ==
    /\ \E S \in SUBSET Ids : ledger = {Row(i, "t1", "s1") : i \in S}
    /\ lhist = IdleLedgerHist
    /\ max_retries \in 0..MaxRetriesCfg
    /\ max_workers \in 1..MaxWorkersCfg
    /\ dry_run \in BOOLEAN
    /\ shutdown_requested \in BOOLEAN
    /\ mpc = "list" /\ phase = "initial" /\ passNo = 0
    /\ videos = <<>> /\ jobs = <<>> /\ yielded = {}
    /\ success_count = 0 /\ failure_count = 0
    /\ phist = NewPassHist({}, FALSE)
    /\ IdleUpload
    /\ IdleProc

\* signal_handler
Shutdown ==
    /\ mpc \notin {"off", "done"}
    /\ ~shutdown_requested
    /\ shutdown_requested' = TRUE
    /\ UNCHANGED <<ledgerVars, cfgVars, mpc, phase, passNo, videos, jobs, yielded,
                   success_count, failure_count, phist, up, procVars, auxVars>>

\* videos = yt.fetch_video_list(...)
FetchVideoList ==
    /\ mpc = "list"
    /\ videos' \in Listings(max_retries, dry_run)
    /\ mpc' = "process"
    /\ UNCHANGED <<ledgerVars, cfgVars, shutdown_requested, phase, passNo, jobs,
                   yielded, success_count, failure_count, phist, up, procVars, auxVars>>

\* process_videos up to the end of the submit comprehension.
ProcessVideosStart ==
    /\ mpc = "process"
    /\ LET todo == VideosToProcess(videos, ledger)
       IN /\ jobs' = [i \in 1..Len(todo) |-> NewJob(todo[i], dry_run)]
          /\ mpc' = IF todo = <<>> THEN "after" ELSE "collect"
    /\ passNo' = passNo + 1
    /\ success_count' = 0 /\ failure_count' = 0
    /\ yielded' = {}
    /\ phist' = NewPassHist(ledger, shutdown_requested)
    /\ UNCHANGED <<ledgerVars, cfgVars, shutdown_requested, phase, videos, up, procVars, auxVars>>

\* Every exception of a monitoring pass is fatal too.
OnPassExceptionFatal(ph) == "fatal"

\* The except clauses around a pass: the one of the initial sync logs
\* "Fatal error during initial sync" and returns 1, the one inside the
\* monitoring loop logs and sleeps.
OnPassException(ph) == IF ph = "initial" THEN "fatal" ELSE "cooldown"

\* state_db.is_archived raises in the filter of process_videos (sqlite3
\* error): the exception leaves process_videos before any job is submitted
\* and reaches the except clause of main that encloses the call.
FilterRaises ==
    /\ mpc = "process"
    /\ faults < MaxFaults
    /\ faults' = faults + 1
    /\ passNo' = passNo
    /\ videos' = <<>>
    /\ prevFailed' = {}
    /\ IF OnPassException(phase) = "fatal"
       THEN mpc' = "returned" /\ main_ret' = 1
       ELSE mpc' = "cooldown" /\ main_ret' = main_ret
    /\ UNCHANGED <<ledgerVars, cfgVars, shutdown_requested, phase, jobs, yielded,
                   success_count, failure_count, phist, up, pre, exit_status, auxVars>>

\* time.sleep(60) of the monitoring loop's except clause.
Cooldown ==
    /\ mpc = "cooldown"
    /\ mpc' = "while"
    /\ UNCHANGED <<ledgerVars, cfgVars, shutdown_requested, phase, passNo, videos,
                   jobs, yielded, success_count, failure_count, phist, up, procVars, auxVars>>

\* A pool thread takes the next work item off the queue (FIFO).
JobStart(j) ==
    /\ j \in Queued
    /\ \A k \in Queued : j <= k
    /\ Cardinality(Running) < max_workers
    /\ jobs' = [jobs EXCEPT ![j].st = "running", ![j].late = shutdown_requested]
    /\ UNCHANGED <<ledgerVars, cfgVars, shutdown_requested, mpc, phase, passNo,
                   videos, yielded, success_count, failure_count, phist, up, procVars, auxVars>>

\* process_video returns: the frame is gone, the future holds the result.
Returned(job, res) ==
    [job EXCEPT !.st = "returned", !.pc = "-", !.res = res, !.attempt = 0,
                !.tries = 0, !.lastFetch = "none"]

FirstDone(h, j) == IF h.firstDone = 0 THEN [h EXCEPT !.firstDone = j] ELSE h

\* A failed attempt ends the job: the loop is left.
NextAttemptGiveUp(job) == [job EXCEPT !.attempt = max_retries + 1, !.pc = "loop"]

\* "continue", or the end of the loop body after the except clause or after
\* "Upload failed": the for loop goes on to the next attempt.
NextAttempt(job) == [job EXCEPT !.attempt = @ + 1, !.pc = "loop"]

\* Head of an attempt of process_video: loop bound, shutdown check, dry-run
\* shortcut; otherwise the attempt goes on to call yt.download_video.
JobLoop(j) ==
    /\ j \in Running /\ jobs[j].pc = "loop"
    /\ LET job == jobs[j]
           ret == job.attempt \notin AttemptRange(max_retries)
                  \/ ShutdownCheck(shutdown_requested) \/ job.dry
           new == IF job.attempt \notin AttemptRange(max_retries)
                      THEN Returned(job, "failed")
                  ELSE IF ShutdownCheck(shutdown_requested)
                      THEN Returned(job, "shutdown")
                  ELSE IF job.dry
                      THEN Returned(job, "success")
                  ELSE [job EXCEPT !.pc = "download", !.tries = 0,
                                   !.lastFetch = "none", !.nCalls = @ + 1]
       IN /\ jobs' = [jobs EXCEPT ![j] = new]
          /\ phist' = IF ret THEN FirstDone(phist, j) ELSE phist
    /\ UNCHANGED <<ledgerVars, cfgVars, shutdown_requested, mpc, phase, passNo,
                   videos, yielded, success_count, failure_count, up, procVars, auxVars>>

\* What the attempts of one download_video call meet: an outcome for each
\* loop index.  Nothing after the first outcome that is not "fail" is ever
\* looked at, so those are fixed to "fail".
Oracles ==
    {f \in [0..DownloadRetries -> FetchOutcomes] :
        \A i, k \in 0..DownloadRetries : (f[i] # "fail" /\ k > i) => f[k] = "fail"}

\* download_video's loop "for attempt in range(max_retries + 1)": the first
\* attempt that yields a result returns its filename; when the range is
\* exhausted the call returns None.  n counts the attempts made.
RECURSIVE DownloadLoop(_, _, _)
DownloadLoop(f, i, n) ==
    IF i \notin DownloadAttempts(DownloadRetries) THEN [ret |-> "None", tries |-> n]
    ELSE IF f[i] = "fail" THEN DownloadLoop(f, i + 1, n + 1)
    ELSE [ret |-> f[i], tries |-> n + 1]

download_video(f) == DownloadLoop(f, 0, 0)

\* History of the underlying fetch attempts of a job: failTries counts them
\* for as long as every one of them has failed.
Tried(job, r) ==
    IF r.ret = "None" /\ job.allFail
    THEN [job EXCEPT !.tries = r.tries, !.failTries = @ + r.tries]
    ELSE [job EXCEPT !.tries = r.tries, !.failTries = 0, !.allFail = FALSE]

\* An attempt that goes on to the upload whatever the download gave.
FetchFailedNever(r) == FALSE

\* "if not video_path or not os.path.exists(video_path):"
FetchFailed(r) == r = "None" \/ r = "nofile"

\* What lastFetch keeps of a download_video result.
FetchKept(r) ==
    CASE r = "file" -> "path" [] r = "nofile" -> "missing" [] r = "None" -> "None"

\* video_path = yt.download_video(video_id, title, download_dir) and the test
\* "if not video_path or not os.path.exists(video_path): continue".  The
\* call reads and writes nothing shared, so it is one step.  tries and
\* lastFetch describe the last call until the next one starts.
JobDownload(j) ==
    /\ j \in Running /\ jobs[j].pc = "download"
    /\ \E f \in Oracles :
         LET r == download_video(f)
             job == [Tried(jobs[j], r) EXCEPT !.lastFetch = FetchKept(r.ret),
                                             !.allOk = @ /\ r.ret = "file"]
         IN jobs' = [jobs EXCEPT ![j] =
                IF FetchFailed(r.ret) THEN NextAttempt(job)
                ELSE [job EXCEPT !.pc = "post"]]
    /\ UNCHANGED <<ledgerVars, cfgVars, shutdown_requested, mpc, phase, passNo,
                   videos, yielded, success_count, failure_count, phist, up, procVars, auxVars>>

\* The rest of an attempt after a download that left a file: remote subpath,
\* rclone.upload_file, state_db.add_archived, os.remove, return; every
\* exception is caught by the attempt's except clause.
JobPost(j) ==
    /\ j \in Running /\ jobs[j].pc = "post"
    /\ LET job == jobs[j]
       IN IF ~RemotePathEvaluates
          THEN /\ jobs' = [jobs EXCEPT ![j] = NextAttempt(job)]
               /\ UNCHANGED <<ledger, phist>>
          ELSE \E o \in UploadOutcomes :
                 LET upl == [job EXCEPT !.nUp = @ + 1,
                                        !.upFail = @ \/ o # "success"]
                 IN IF o = "success" /\ CommitCallBinds
                    THEN /\ ledger' = add_archived(ledger, job.id, "t1", "s1")
                         /\ jobs' = [jobs EXCEPT ![j] = Returned(upl, "success")]
                         /\ phist' = FirstDone(phist, j)
                    ELSE /\ jobs' = [jobs EXCEPT ![j] = NextAttempt(upl)]
                         /\ UNCHANGED <<ledger, phist>>
    /\ UNCHANGED <<lhist, cfgVars, shutdown_requested, mpc, phase, passNo,
                   videos, yielded, success_count, failure_count, up, procVars, auxVars>>

\* executor.shutdown(wait=False, cancel_futures=True)
CancelQueued(js) ==
    [j \in DOMAIN js |-> IF js[j].st = "queued"
                         THEN [js[j] EXCEPT !.st = "cancelled", !.pc = "-"]
                         ELSE js[j]]

\* Counting a failure result as nothing.
CountFailureDropped(res, n) == n

\* failure_count += 1 for a (False, message) result.
CountFailure(res, n) == IF res # "success" THEN n + 1 ELSE n

\* success_count += 1 for a (True, message) result.
CountSuccess(res, n) == IF res = "success" THEN n + 1 ELSE n

\* A collector that never looks at the flag.
BreakOnShutdownNever(flag) == FALSE

\* "if shutdown_requested:" at the head of the as_completed loop body.
BreakOnShutdown(flag) == flag

\* One iteration of "for future in as_completed(futures)".
CollectResult(j) ==
    /\ mpc = "collect"
    /\ j \in Completed \ yielded
    /\ yielded' = yielded \cup {j}
    /\ IF BreakOnShutdown(shutdown_requested)
       THEN /\ jobs' = CancelQueued(jobs)
            /\ mpc' = "join"
            /\ phist' = [phist EXCEPT !.broke = "shutdown",
                                      !.runAtBreak = (Running # {})]
            /\ UNCHANGED <<success_count, failure_count>>
       ELSE LET s == CountSuccess(jobs[j].res, success_count)
                f == CountFailure(jobs[j].res, failure_count)
                stop == dry_run /\ s + f >= DryRunStop
            IN /\ success_count' = s
               /\ failure_count' = f
               /\ jobs' = IF stop THEN CancelQueued(jobs) ELSE jobs
               /\ mpc' = IF stop THEN "join" ELSE "collect"
               /\ phist' = [phist EXCEPT
                               !.counted = @ \cup {j},
                               !.broke = IF stop THEN "dry" ELSE @,
                               !.runAtBreak = IF stop THEN Running # {} ELSE @]
    /\ UNCHANGED <<ledgerVars, cfgVars, shutdown_requested, phase, passNo, videos, up, procVars, auxVars>>

\* as_completed is exhausted: every future has been yielded.
CollectDone ==
    /\ mpc = "collect"
    /\ yielded = JobIdx
    /\ mpc' = "join"
    /\ UNCHANGED <<ledgerVars, cfgVars, shutdown_requested, phase, passNo, videos,
                   jobs, yielded, success_count, failure_count, phist, up, procVars, auxVars>>

\* End of the with block; process_videos returns its counts.
ExecutorExit ==
    /\ mpc = "join"
    /\ WaitOnExit(Running = {})
    /\ mpc' = "after"
    /\ UNCHANGED <<ledgerVars, cfgVars, shutdown_requested, phase, passNo, videos,
                   jobs, yielded, success_count, failure_count, phist, up, procVars, auxVars>>

\* main after a pass: the counts are logged and the locals of the pass are
\* dropped; the initial sync enters the monitoring loop, a monitoring pass
\* goes to sleep.
AfterPass ==
    /\ mpc = "after"
    /\ IF phase = "initial"
       THEN phase' = "monitor" /\ mpc' = "while"
       ELSE phase' = phase /\ mpc' = "sleep"
    /\ videos' = <<>> /\ jobs' = <<>> /\ yielded' = {}
    /\ success_count' = 0 /\ failure_count' = 0
    /\ phist' = NewPassHist({}, FALSE)
    /\ prevFailed' = {jobs[j].id : j \in {k \in JobIdx : jobs[k].res = "failed"}}
    /\ UNCHANGED <<ledgerVars, cfgVars, shutdown_requested, passNo, up, pre,
                   main_ret, exit_status, faults, auxVars>>

\* The sliced sleep: over, or left early on the flag.
Sleep ==
    /\ mpc = "sleep"
    /\ mpc' = "while"
    /\ UNCHANGED <<ledgerVars, cfgVars, shutdown_requested, phase, passNo, videos,
                   jobs, yielded, success_count, failure_count, phist, up, procVars, auxVars>>

\* A loop that never looks at the flag.
LoopConditionAlways(flag) == TRUE

\* "while not shutdown_requested:"
LoopCondition(flag) == ~flag

\* The loop test of the monitoring loop; when it fails main logs "Shutting
\* down gracefully..." and returns 0.
WhileCheck ==
    /\ mpc = "while"
    /\ IF LoopCondition(shutdown_requested)
       THEN passNo < MaxPasses /\ mpc' = "list" /\ main_ret' = main_ret
       ELSE mpc' = "returned" /\ main_ret' = 0
    /\ UNCHANGED <<ledgerVars, cfgVars, shutdown_requested, phase, passNo, videos,
                   jobs, yielded, success_count, failure_count, phist, up, pre,
                   exit_status, faults, prevFailed, auxVars>>

\* "if __name__ == '__main__': main()": the value main returns is dropped
\* and the interpreter ends with status 0.
ExitStatus(r) == 0

\* main has returned; the process ends.
MainExit ==
    /\ mpc = "returned"
    /\ mpc' = "done"
    /\ exit_status' = ExitStatus(main_ret)
    /\ UNCHANGED <<ledgerVars, cfgVars, shutdown_requested, phase, passNo, videos,
                   jobs, yielded, success_count, failure_count, phist, up, pre,
                   main_ret, faults, prevFailed, auxVars>>

Next ==
    \/ Shutdown
    \/ FetchVideoList
    \/ ProcessVideosStart
    \/ FilterRaises
    \/ Cooldown
    \/ \E j \in JobIdx : JobStart(j)
    \/ \E j \in JobIdx : JobLoop(j)
    \/ \E j \in JobIdx : JobDownload(j)
    \/ \E j \in JobIdx : JobPost(j)
    \/ \E j \in JobIdx : CollectResult(j)
    \/ CollectDone
    \/ ExecutorExit
    \/ AfterPass
    \/ Sleep
    \/ WhileCheck
    \/ MainExit

Spec == InitPass /\ [][Next]_vars

\* Liveness: the coordinator and the pool threads keep running and every
\* external call (listing, download, sleep) returns.
\* Runs on an empty database with dry_run off.
InitLive == InitPass /\ ledger = {} /\ ~dry_run

SpecLive == InitLive /\ [][Next]_vars /\ WF_vars(Next)

TypeOK ==
    /\ mpc \in {"list", "process", "collect", "join", "after", "sleep", "while",
               "cooldown", "returned", "done"}
    /\ success_count \in 0..Len(jobs) /\ failure_count \in 0..Len(jobs)
    /\ \A j \in JobIdx : jobs[j].st \in {"queued", "running", "returned", "cancelled"}

InPass == mpc \in {"collect", "join", "after"}

\* process_videos has returned and no shutdown was requested up to then.
PassOver == mpc = "after" /\ ~shutdown_requested

Succeeded == {j \in JobIdx : jobs[j].res = "success"}
Failed == {j \in JobIdx : jobs[j].st = "returned" /\ jobs[j].res # "success"}
Unarchived == {i \in 1..Len(videos) : ~is_archived(phist.ledger0, videos[i])}

(***************************************************************************)
(* C2. No duplicate transfer: a listed item whose id is in the Ledger when *)
(* the pass filters its list gets no download_video call, no upload_file   *)
(* call, and adds to neither count.                                        *)
(***************************************************************************)
C2_NoDuplicateTransfer ==
    InPass =>
        /\ \A i \in 1..Len(videos) :
              is_archived(phist.ledger0, videos[i]) =>
                  \A j \in JobIdx :
                      jobs[j].id = videos[i] =>
                          /\ jobs[j].nCalls = 0 /\ jobs[j].nUp = 0
                          /\ j \notin phist.counted
        /\ success_count + failure_count <= Cardinality(Unarchived)

C2_Witness ==
    /\ PassOver
    /\ \E i \in 1..Len(videos) : is_archived(phist.ledger0, videos[i])
    /\ \E j \in JobIdx : jobs[j].nCalls > 0 /\ j \in phist.counted

(***************************************************************************)
(* C3. End-to-end success, as claimed: in a non-dry-run pass without       *)
(* shutdown, a job whose every fetch returned an existing file and that    *)
(* met no upload failure ends Done: its id is archived and it is counted   *)
(* as a success.                                                           *)
(***************************************************************************)
C3_EndToEndSuccess ==
    (PassOver /\ ~dry_run) =>
        \A j \in JobIdx :
            (jobs[j].nCalls > 0 /\ jobs[j].allOk /\ ~jobs[j].upFail) =>
                /\ is_archived(ledger, jobs[j].id)
                /\ jobs[j].res = "success"
                /\ success_count > 0

(***************************************************************************)
(* C4. Dry run, as claimed: with dry_run enabled a pass leaves the Ledger  *)
(* unchanged, makes no download_video and no upload_file call, and reports *)
(* every unarchived listed item as processed.                              *)
(***************************************************************************)
C4_DryRun ==
    (dry_run /\ InPass) =>
        /\ ledger = phist.ledger0
        /\ \A j \in JobIdx : jobs[j].nCalls = 0 /\ jobs[j].nUp = 0
        /\ (PassOver /\ phist.broke = "no") => success_count = Len(jobs)

(***************************************************************************)
(* C5, as claimed: a job whose every fetch attempt failed is marked Failed *)
(* after exactly max_retries + 1 underlying fetch attempts.                *)
(***************************************************************************)
C5_Original ==
    \A j \in JobIdx :
        (jobs[j].res = "failed" /\ jobs[j].nCalls > 0 /\ jobs[j].allFail) =>
            jobs[j].failTries = max_retries + 1

(***************************************************************************)
(* C5, amended: every download_video call whose attempts all fail makes    *)
(* exactly DownloadRetries + 1 attempts (its own default budget, not the   *)
(* configured max_retries) and returns None; a job that is marked Failed   *)
(* has made max_retries such calls, so max_retries * (DownloadRetries + 1) *)
(* underlying attempts when every one of them failed.                      *)
(***************************************************************************)
C5_FetchExhaustion ==
    \A j \in JobIdx :
        /\ jobs[j].lastFetch = "None" => jobs[j].tries = DownloadRetries + 1
        /\ jobs[j].res = "failed" =>
              /\ jobs[j].nCalls = max_retries
              /\ jobs[j].allFail =>
                    jobs[j].failTries = max_retries * (DownloadRetries + 1)

C5_Witness ==
    \E j, k \in JobIdx :
        /\ jobs[j].res = "failed" /\ jobs[j].allFail /\ jobs[j].nCalls >= 2
        /\ jobs[k].st = "running" /\ jobs[k].lastFetch = "None"
        /\ jobs[k].tries > 0

(***************************************************************************)
(* C7. Cancellation before a pass: when the shutdown flag is already set   *)
(* as process_videos starts, no job of the pass fetches, uploads or        *)
(* commits, and the Ledger gains no record during the pass.                *)
(***************************************************************************)
C7_CancelBeforePass ==
    (InPass /\ phist.shutdownAtStart) =>
        /\ ledger = phist.ledger0
        /\ \A j \in JobIdx :
              jobs[j].nCalls = 0 /\ jobs[j].nUp = 0 /\ jobs[j].res # "success"

C7_Witness ==
    /\ mpc = "after" /\ phist.shutdownAtStart
    /\ max_retries > 0
    /\ \E j \in JobIdx : jobs[j].res = "shutdown"

(***************************************************************************)
(* C8. Cancellation mid-pass: a job that starts executing after the flag   *)
(* was set makes no download_video and no upload_file call; jobs that were *)
(* already executing may have made theirs and return.                      *)
(***************************************************************************)
C8_CancelMidPass ==
    \A j \in JobIdx :
        (jobs[j].late \/ (shutdown_requested /\ jobs[j].st \in {"queued", "cancelled"})) =>
            jobs[j].nCalls = 0 /\ jobs[j].nUp = 0

C8_Witness ==
    /\ mpc = "after" /\ ~phist.shutdownAtStart
    /\ max_retries > 0
    /\ \E j, k \in JobIdx :
          /\ jobs[j].late /\ jobs[j].st = "returned"
          /\ ~jobs[k].late /\ jobs[k].st = "returned" /\ jobs[k].nCalls > 0

(***************************************************************************)
(* C9. Ordering insensitivity: when a non-dry-run pass without shutdown    *)
(* returns, whatever the order in which the workers completed,             *)
(* success_count and failure_count are the numbers of jobs that returned   *)
(* success and failure, they sum to the number of dispatched jobs, and the *)
(* Ledger holds the ids it held before the pass plus those of the          *)
(* succeeded jobs.                                                         *)
(***************************************************************************)
C9_OrderInsensitive ==
    (PassOver /\ ~dry_run) =>
        /\ success_count = Cardinality(Succeeded)
        /\ failure_count = Cardinality(Failed)
        /\ success_count + failure_count = Len(jobs)
        /\ get_all_archived(ledger) =
              get_all_archived(phist.ledger0) \cup {jobs[j].id : j \in Succeeded}

C9_Witness ==
    /\ PassOver /\ ~dry_run
    /\ Len(jobs) >= 2
    /\ phist.firstDone = Len(jobs)
    /\ failure_count = Len(jobs)

(***************************************************************************)
(* C10. Passes are strictly sequential: once process_videos has returned   *)
(* (after the loop ran out, after the shutdown break or after the dry-run  *)
(* stop) no worker of the pass is executing or still holds a queued job,   *)
(* so the next pass starts with no job of an earlier pass in flight.       *)
(***************************************************************************)
C10_PassesSequential ==
    mpc \notin {"collect", "join"} =>
        \A j \in JobIdx : jobs[j].st \in {"returned", "cancelled"}

C10_Witness ==
    /\ mpc = "after" /\ passNo = 2
    /\ phist.broke = "shutdown" /\ phist.runAtBreak
    /\ \E j \in JobIdx : jobs[j].nCalls > 0

(***************************************************************************)
(* C11. Commit only after fetch and upload: an attempt of process_video    *)
(* goes on to the upload stage only with an existing file from its own     *)
(* download_video call; a job whose every fetch failed never calls         *)
(* upload_file; and every id the Ledger gained during the pass belongs to  *)
(* a job that called upload_file and returned success.                     *)
(***************************************************************************)
C11_CommitAfterFetchAndUpload ==
    /\ \A j \in JobIdx :
          /\ jobs[j].pc = "post" => jobs[j].lastFetch = "path"
          /\ jobs[j].allFail => jobs[j].nUp = 0
          /\ jobs[j].nUp > 0 => jobs[j].nCalls > 0
    /\ InPass =>
          \A id \in get_all_archived(ledger) \ get_all_archived(phist.ledger0) :
              \E j \in JobIdx :
                  jobs[j].id = id /\ jobs[j].res = "success" /\ jobs[j].nUp > 0

C11_Witness ==
    \E j, k \in JobIdx :
        /\ jobs[j].pc = "post" /\ jobs[j].lastFetch = "path"
        /\ jobs[k].st = "returned" /\ jobs[k].nCalls > 0 /\ jobs[k].allFail
        /\ jobs[k].nUp = 0

(***************************************************************************)
(* C12. No requeue within a pass, retry on the next: a pass dispatches     *)
(* exactly one job for each unarchived entry of its listing; when the pass *)
(* is over the id of a job that ended Failed is not in the Ledger; and an  *)
(* id whose job failed in the previous pass gets a job again in a pass     *)
(* that lists it.                                                          *)
(***************************************************************************)
C12_RetryNextPass ==
    InPass =>
        /\ \A id \in Ids :
              Cardinality({j \in JobIdx : jobs[j].id = id}) =
                  Cardinality({i \in Unarchived : videos[i] = id})
        /\ mpc = "after" =>
              \A j \in JobIdx :
                  jobs[j].res = "failed" => ~is_archived(ledger, jobs[j].id)
        /\ \A i \in 1..Len(videos) :
              videos[i] \in prevFailed => \E j \in JobIdx : jobs[j].id = videos[i]

C12_Witness ==
    /\ mpc = "after" /\ passNo = 2
    /\ \E j \in JobIdx :
          /\ jobs[j].id \in prevFailed /\ jobs[j].res = "failed"
          /\ jobs[j].nCalls > 0
    /\ \E id \in Ids : Cardinality({j \in JobIdx : jobs[j].id = id}) = 1

(***************************************************************************)
(* C13, as claimed: once a fetch of a job has succeeded the Fetcher is not *)
(* invoked again for that job in the same pass.                            *)
(***************************************************************************)
C13_Original ==
    \A j \in JobIdx : jobs[j].allOk => jobs[j].nCalls <= 1

(***************************************************************************)
(* C13, amended: the job is a loop of attempts and every attempt starts at *)
(* the Fetcher: the number of download_video calls of a running job is the *)
(* number of its attempt, also after fetches that succeeded, and a job     *)
(* whose every fetch left a file is Failed only after max_retries          *)
(* download_video calls.                                                   *)
(***************************************************************************)
C13_AttemptLoop ==
    \A j \in JobIdx :
        /\ jobs[j].pc \in {"download", "post"} => jobs[j].nCalls = jobs[j].attempt
        /\ jobs[j].pc = "loop" => jobs[j].nCalls = jobs[j].attempt - 1
        /\ (jobs[j].res = "failed" /\ jobs[j].allOk) => jobs[j].nCalls = max_retries

C13_Witness ==
    \E j \in JobIdx :
        jobs[j].res = "failed" /\ jobs[j].allOk /\ jobs[j].nCalls >= 2

C15_NoPassAfterShutdown ==
    [][/\ (mpc = "list" /\ mpc' = "process") => ~shutdown_requested
       /\ shutdown_requested => shutdown_requested']_vars

(***************************************************************************)
(* Pre-flight of main: load_config, construction of the components, the    *)
(* connectivity check, and the end of the process.                         *)
(***************************************************************************)
\* Parameters of YouTubeHandler.__init__ (no **kwargs).
HandlerParams == {"channel_url", "api_key", "max_workers"}

\* Keywords of the YouTubeHandler(...) call in main.
HandlerKeywords == {"channel_url", "api_key", "format"}

\* A keyword that is no parameter raises TypeError.
HandlerCallBinds == HandlerKeywords \subseteq HandlerParams

\* main is entered: the handlers for SIGINT and SIGTERM are installed and
\* load_config is about to run.  file: config.ini exists; url: it has a
\* non-empty channel_url.
InitMain ==
    /\ \E S \in SUBSET Ids : ledger = {Row(i, "t1", "s1") : i \in S}
    /\ lhist = IdleLedgerHist
    /\ max_retries \in 0..MaxRetriesCfg
    /\ max_workers \in 1..MaxWorkersCfg
    /\ dry_run \in BOOLEAN
    /\ shutdown_requested = FALSE
    /\ mpc = "load_config" /\ phase = "initial" /\ passNo = 0
    /\ videos = <<>> /\ jobs = <<>> /\ yielded = {}
    /\ success_count = 0 /\ failure_count = 0
    /\ phist = [off |-> TRUE]
    /\ IdleUpload
    /\ \E f, u \in BOOLEAN : pre = [file |-> f, url |-> u, failed |-> "none"]
    /\ main_ret = "none" /\ exit_status = "running"
    /\ faults = 0 /\ prevFailed = {}
    /\ ls = [off |-> TRUE] /\ th = [off |-> TRUE]
    /\ fx = [off |-> TRUE] /\ sn = [off |-> TRUE]

\* load_config: without config.ini the defaults are written and the process
\* exits with status 0; with an empty channel_url it exits with status 1.
LoadConfig ==
    /\ mpc = "load_config"
    /\ IF ~pre.file
       THEN mpc' = "done" /\ exit_status' = 0 /\ pre' = pre
       ELSE IF ~pre.url
       THEN mpc' = "done" /\ exit_status' = 1
            /\ pre' = [pre EXCEPT !.failed = "config"]
       ELSE mpc' = "init" /\ exit_status' = exit_status /\ pre' = pre
    /\ UNCHANGED <<ledgerVars, cfgVars, shutdown_requested, phase, passNo, videos,
                   jobs, yielded, success_count, failure_count, phist, up,
                   main_ret, faults, prevFailed, auxVars>>

\* "Initializing components..." up to the connectivity check, inside the try
\* block whose except clause logs "Fatal error" and returns 1.
InitComponents ==
    /\ mpc = "init"
    /\ IF ~HandlerCallBinds
       THEN /\ mpc' = "returned" /\ main_ret' = 1
            /\ pre' = [pre EXCEPT !.failed = "construct"]
       ELSE \E connected \in BOOLEAN :
              IF ~connected
              THEN /\ mpc' = "returned" /\ main_ret' = 1
                   /\ pre' = [pre EXCEPT !.failed = "connect"]
              ELSE mpc' = "list" /\ main_ret' = main_ret /\ pre' = pre
    /\ UNCHANGED <<ledgerVars, cfgVars, shutdown_requested, phase, passNo, videos,
                   jobs, yielded, success_count, failure_count, phist, up,
                   exit_status, faults, prevFailed, auxVars>>

NextMain ==
    \/ Shutdown
    \/ LoadConfig
    \/ InitComponents
    \/ MainExit

SpecMain == InitMain /\ [][NextMain]_vars

(***************************************************************************)
(* C16, as claimed: when pre-flight fails (channel_url empty, or a failure *)
(* of the component set-up and connectivity check of main) the process     *)
(* ends with a non-zero exit status and no pass has been started.          *)
(***************************************************************************)
C16_PreflightFatal ==
    (mpc = "done" /\ pre.failed # "none") =>
        /\ exit_status = 1
        /\ passNo = 0 /\ jobs = <<>>

(***************************************************************************)
(* C17. Graceful exit is live: from any state of a run in which the        *)
(* shutdown flag is set, the process ends with exit status 0.              *)
(***************************************************************************)
C17_GracefulExit ==
    shutdown_requested ~> (mpc = "done" /\ exit_status = 0)

C17_Witness ==
    /\ mpc = "done" /\ exit_status = 0 /\ main_ret = 0
    /\ shutdown_requested /\ phase = "monitor" /\ passNo = 2

(***************************************************************************)
(* The Uploader: one RcloneHandler.upload_file call.                       *)
(***************************************************************************)
\* Keyword parameters of UploadProgress.update (none of them is "message",
\* and there is no **kwargs).
ProgressUpdateParams ==
    {"transferred", "size", "speed", "percent", "eta", "done", "error", "status"}

\* Keywords of the progress.update calls of upload_file.
RetryUpdateKw == {"status", "message"}
DoneUpdateKwNoMessage == {"transferred", "percent", "speed", "done", "status"}
DoneUpdateKw == {"transferred", "percent", "speed", "done", "status", "message"}
BackoffUpdateKw == {"status", "message"}
CancelUpdateKw == {"status", "done", "error", "message"}
FailUpdateKw == {"status", "done", "error", "message"}
UnexpectedUpdateKw == {"status", "done", "error", "message"}

\* Every keyword call binds.
UpdateBindsAny(kw) == TRUE

\* A keyword call binds iff every keyword is a parameter; else TypeError.
UpdateBinds(kw) == kw \subseteq ProgressUpdateParams

\* What subprocess.run of an rclone command can do: exit 0, exit with a
\* retryable status (3..9), exit with status 1 or 2, or fail to launch.
RunOutcomes == {"exit0", "exit_retryable", "exit_usage", "oserror"}

\* Size of the remote object reported by lsjson, against the local size.
RemoteInfos == {"same", "differ", "absent"}

\* _run_rclone_command with retries=0: "True", "False" or "raise".  With
\* check=False subprocess.run returns normally whatever the exit status.
RunRcloneCommand(stop, check, o) ==
    IF stop THEN "False"
    ELSE IF o = "oserror" THEN (IF check THEN "raise" ELSE "False")
    ELSE IF o = "exit0" THEN "True"
    ELSE IF check THEN "raise" ELSE "True"

\* max_attempts = max(1, retries + 1)
MaxAttempts(r) == IF r + 1 > 1 THEN r + 1 ELSE 1

NoResult == [kind |-> "none"]
UploadResult(ok, matched, n) ==
    [kind |-> "result", success |-> ok, checksum_matched |-> matched, retries |-> n]
Raised(e) == [kind |-> "raise", exc |-> e]

InitUpload ==
    /\ ledger = {}
    /\ lhist = IdleLedgerHist
    /\ IdlePass
    /\ \E f, r, ow, v \in BOOLEAN, n \in 0..MaxUploadRetries :
          up = [pc |-> "validate", isfile |-> f, readable |-> r, overwrite |-> ow,
                verify |-> v, retries |-> n, stop |-> FALSE, attempt |-> 0,
                mkdirs |-> 0, transfers |-> 0, retryableOnly |-> TRUE,
                usage |-> FALSE, zero |-> FALSE, mismatch |-> FALSE,
                ops |-> <<>>, made |-> "none", seen |-> "none",
                out |-> NoResult]
    /\ IdleProc

UFrame == <<ledgerVars, cfgVars, passVars, procVars, auxVars>>

\* RcloneHandler.shutdown() called from another thread.
UStop ==
    /\ up.pc \notin {"off", "done"}
    /\ ~up.stop
    /\ up' = [up EXCEPT !.stop = TRUE]
    /\ UNCHANGED UFrame

\* No input validation.
ValidateSkipped(isfile, readable) == "ok"

\* "if not os.path.isfile(...): raise FileNotFoundError" and
\* "if not os.access(..., os.R_OK): raise PermissionError".
Validate(isfile, readable) ==
    IF ~isfile THEN "FileNotFoundError"
    ELSE IF ~readable THEN "PermissionError"
    ELSE "ok"

\* The input validation of upload_file, before the try block.
UValidate ==
    /\ up.pc = "validate"
    /\ LET v == Validate(up.isfile, up.readable)
       IN up' = IF v = "ok" THEN [up EXCEPT !.pc = "mkdir"]
                ELSE [up EXCEPT !.pc = "done", !.out = Raised(v)]
    /\ UNCHANGED UFrame

\* The rclone commands a call has run, in order; a command is not run when
\* the stop event is set.
Ran(u, cmd) == IF u.stop THEN u ELSE [u EXCEPT !.ops = Append(@, cmd)]

\* What became of the remote directory: "ok" when rclone mkdir exited 0,
\* "failed" when it ran and did not, "none" when it was not run.
Made(stop, o) == IF stop THEN "none" ELSE IF o = "exit0" THEN "ok" ELSE "failed"

\* _ensure_remote_path_exists: rclone mkdir with check=False.
UMkdir ==
    /\ up.pc = "mkdir"
    /\ \E o \in RunOutcomes :
         LET ran == Ran([up EXCEPT !.mkdirs = IF up.stop THEN @ ELSE @ + 1,
                                   !.made = Made(up.stop, o)], "mkdir")
         IN up' = IF RunRcloneCommand(up.stop, FALSE, o) = "True"
                  THEN [ran EXCEPT !.pc = "exists"]
                  ELSE [ran EXCEPT !.pc = "done",
                                   !.out = UploadResult(FALSE, "None", 0)]
    /\ UNCHANGED UFrame

\* "if not overwrite:" ... "if remote_info and remote_info.get('Size') ==
\* file_size:"
SkipExisting(overwrite, info) == ~overwrite /\ info = "same"

\* The skip check (rclone lsjson, run only under overwrite=False; without a
\* run there is no remote info), then the progress object.
UExists ==
    /\ up.pc = "exists"
    /\ \E info \in RemoteInfos :
         LET got == IF up.overwrite \/ up.stop THEN "none" ELSE info
             ran == IF up.overwrite THEN up
                    ELSE [Ran(up, "lsjson_exists") EXCEPT !.seen = got]
         IN up' = IF SkipExisting(up.overwrite, got)
                  THEN [ran EXCEPT !.pc = "done", !.out = UploadResult(TRUE, "None", 0)]
                  ELSE [ran EXCEPT !.pc = "loop"]
    /\ UNCHANGED UFrame

\* "while attempt < max_attempts and not self._stop_event:" and the
\* progress.update of a retry, inside the attempt's try block.
ULoopHead ==
    /\ up.pc = "loop"
    /\ up' = IF ~(up.attempt < MaxAttempts(up.retries) /\ ~up.stop)
                 THEN [up EXCEPT !.pc = "final"]
             ELSE IF up.attempt > 0 /\ ~UpdateBinds(RetryUpdateKw)
                 THEN [up EXCEPT !.pc = "next"]
             ELSE [up EXCEPT !.pc = "transfer"]
    /\ UNCHANGED UFrame

\* rclone copy through _run_rclone_command(retries=0, check=False), the
\* size verification and the success return; an exception of this block is
\* caught by the attempt's except clause.
UTransfer ==
    /\ up.pc = "transfer"
    /\ \E o \in RunOutcomes, info \in RemoteInfos :
         LET ok == RunRcloneCommand(up.stop, FALSE, o) = "True"
             copied == Ran([up EXCEPT
                              !.transfers = IF up.stop THEN @ ELSE @ + 1,
                              !.retryableOnly = @ /\ (up.stop \/ o = "exit_retryable"),
                              !.usage = @ \/ (~up.stop /\ o = "exit_usage"),
                              !.zero = @ \/ (~up.stop /\ o = "exit0")],
                           "copy")
             verified == IF ok /\ up.verify
                         THEN [Ran(copied, "lsjson_verify") EXCEPT
                                  !.mismatch = @ \/ info = "differ"]
                         ELSE copied
             ran == verified
             matched == IF ~up.verify \/ info = "absent" THEN "None"
                        ELSE IF info = "same" THEN "True" ELSE "False"
         IN up' = IF ok /\ UpdateBinds(DoneUpdateKw)
                  THEN [ran EXCEPT !.pc = "done",
                                   !.out = UploadResult(TRUE, matched, up.attempt)]
                  ELSE [ran EXCEPT !.pc = "next"]
    /\ UNCHANGED UFrame

\* An exception outside the attempt's try block reaches the outer except
\* clause, whose own progress.update raises again out of upload_file.
Unexpected(u) ==
    IF UpdateBinds(UnexpectedUpdateKw)
    THEN [u EXCEPT !.pc = "done", !.out = UploadResult(FALSE, "None", 0)]
    ELSE [u EXCEPT !.pc = "done", !.out = Raised("TypeError")]

\* "attempt += 1" and the backoff before the next attempt.
UNext ==
    /\ up.pc = "next"
    /\ LET u == [up EXCEPT !.attempt = @ + 1]
       IN up' = IF u.attempt < MaxAttempts(u.retries) /\ ~u.stop
                   /\ ~UpdateBinds(BackoffUpdateKw)
                THEN Unexpected(u)
                ELSE [u EXCEPT !.pc = "loop"]
    /\ UNCHANGED UFrame

\* After the loop: the cancelled / failed progress updates and the failure
\* result.
UFinal ==
    /\ up.pc = "final"
    /\ up' = IF (up.stop /\ ~UpdateBinds(CancelUpdateKw)) \/ ~UpdateBinds(FailUpdateKw)
             THEN Unexpected(up)
             ELSE [up EXCEPT !.pc = "done",
                             !.out = UploadResult(FALSE, "None", up.attempt - 1)]
    /\ UNCHANGED UFrame

NextUpload ==
    \/ UStop
    \/ UValidate
    \/ UMkdir
    \/ UExists
    \/ ULoopHead
    \/ UTransfer
    \/ UNext
    \/ UFinal

SpecUpload == InitUpload /\ [][NextUpload]_vars

(***************************************************************************)
(* C6, as claimed: an upload_file call whose every transfer fails with a   *)
(* retryable status, with no stop requested, runs the transfer command     *)
(* exactly retries + 1 times and the remote mkdir once, and returns a      *)
(* result with success = false.                                            *)
(***************************************************************************)
C6_RetryTransferOnly ==
    (up.pc = "done" /\ ~up.stop /\ up.transfers > 0 /\ up.retryableOnly) =>
        /\ up.transfers = up.retries + 1
        /\ up.mkdirs = 1
        /\ up.out.kind = "result" /\ ~up.out.success

(***************************************************************************)
(* C18. Uploader precondition: upload_file on a path that is no file       *)
(* raises FileNotFoundError, on a file that cannot be read PermissionError *)
(* (kinds no other outcome of the call has); it has then run no rclone     *)
(* command (no mkdir, no copy, no lsjson) and made no attempt.             *)
(***************************************************************************)
C18_Precondition ==
    /\ (up.pc = "done" /\ ~up.isfile) => up.out = Raised("FileNotFoundError")
    /\ (up.pc = "done" /\ up.isfile /\ ~up.readable) =>
          up.out = Raised("PermissionError")
    /\ (up.pc # "off" /\ up.out.kind = "raise"
           /\ up.out.exc \in {"FileNotFoundError", "PermissionError"}) =>
          /\ ~(up.isfile /\ up.readable)
          /\ up.ops = <<>> /\ up.mkdirs = 0 /\ up.transfers = 0
          /\ up.attempt = 0

C18_Witness ==
    /\ up.pc = "done" /\ up.isfile /\ ~up.readable
    /\ up.retries = MaxUploadRetries
    /\ up.out = Raised("PermissionError")

Rank(cmd) ==
    CASE cmd = "mkdir" -> 1 [] cmd = "lsjson_exists" -> 2
      [] cmd = "copy" -> 3 [] cmd = "lsjson_verify" -> 4

(***************************************************************************)
(* C19, as claimed: the rclone commands of an upload_file call run in the  *)
(* order mkdir, existence check, copy, verification, the mkdir first and   *)
(* once; when overwrite is off and the existence check reports an object   *)
(* of the local size, the call returns a success result and has run no     *)
(* copy; when the mkdir command fails, the call returns a failure result   *)
(* and has run no copy.                                                    *)
(***************************************************************************)
C19_StepOrder ==
    up.pc # "off" =>
        /\ \A i, k \in DOMAIN up.ops : i < k => Rank(up.ops[i]) < Rank(up.ops[k])
        /\ up.ops # <<>> => up.ops[1] = "mkdir"
        /\ (up.pc = "done" /\ ~up.overwrite /\ up.seen = "same") =>
              /\ up.out.kind = "result" /\ up.out.success
              /\ up.transfers = 0
        /\ (up.pc = "done" /\ up.made = "failed") =>
              /\ up.out.kind = "result" /\ ~up.out.success
              /\ up.transfers = 0

(***************************************************************************)
(* C20, as claimed: an upload_file call whose transfer command ended with  *)
(* a non-retryable status (1 or 2), with no stop requested, has run the    *)
(* transfer once and returns a result with success = false.                *)
(***************************************************************************)
C20_NonRetryableAbort ==
    (up.pc = "done" /\ ~up.stop /\ up.usage) =>
        /\ up.transfers = 1
        /\ up.out.kind = "result" /\ ~up.out.success

\* C21: upload_file, called with an existing readable local file, always returns
\* an UploadResult and never raises, whatever the outcomes of directory
\* creation, transfer and verification are (success, failure on every attempt,
\* or cancellation by the stop event).
C21_NeverRaises ==
    (up.pc = "done" /\ up.isfile /\ up.readable) => up.out.kind = "result"

(***************************************************************************)
(* Claims C22 and C27 on the commit stage of process_video, under Spec.    *)
(***************************************************************************)

\* C22: Ledger failure fails the job.  A job whose every fetch left a file and
\* that met no upload failure can only miss success because add_archived
\* raised; as claimed, such a job is marked Failed and returned as a result
\* value after its one fetch and its one upload, with no further fetch or
\* upload in the pass.
C22_LedgerFailure ==
    (PassOver /\ ~dry_run) =>
        \A j \in JobIdx :
            (jobs[j].nCalls > 0 /\ jobs[j].allOk /\ ~jobs[j].upFail
                /\ jobs[j].res # "success") =>
                    /\ jobs[j].st = "returned" /\ jobs[j].res = "failed"
                    /\ jobs[j].nCalls = 1 /\ jobs[j].nUp = 1

\* C27: benign check/record race, as claimed: two jobs of a pass for the same
\* id, both past the is_archived filter, both with a file from every fetch and
\* no upload failure, both report success, and the Ledger holds exactly one
\* record for the id.
C27_BenignRace ==
    (PassOver /\ ~dry_run) =>
        \A j, k \in JobIdx :
            (j # k /\ jobs[j].id = jobs[k].id
                /\ jobs[j].nCalls > 0 /\ jobs[j].allOk /\ ~jobs[j].upFail
                /\ jobs[k].nCalls > 0 /\ jobs[k].allOk /\ ~jobs[k].upFail) =>
                    /\ jobs[j].res = "success" /\ jobs[k].res = "success"
                    /\ Cardinality(RowsOf(ledger, jobs[j].id)) = 1

(***************************************************************************)
(* The Lister: YouTubeHandler.fetch_video_list over the Data API and       *)
(* yt-dlp.  A string is the sequence of its character codes, compared as   *)
(* Python compares str.                                                    *)
(***************************************************************************)
MaxEntries == 3
MaxResultsCfg == 3

\* "maxResults={min(50, max_results - len(videos))}"
PageMax == 50

Min(a, b) == IF a < b THEN a ELSE b

\* upload_date as yt-dlp gives it: "20240101", "20231231", or nothing.
UploadDates ==
    {<<>>, <<50, 48, 50, 52, 48, 49, 48, 49>>, <<50, 48, 50, 51, 49, 50, 51, 49>>}

\* f"{upload_date[:4]}-{upload_date[4:6]}-{upload_date[6:8]}T00:00:00Z"
Iso(d) ==
    SubSeq(d, 1, 4) \o <<45>> \o SubSeq(d, 5, 6) \o <<45>> \o SubSeq(d, 7, 8)
        \o <<84, 48, 48, 58, 48, 48, 58, 48, 48, 90>>

\* "if upload_date and len(upload_date) == 8:" the date is rewritten,
\* otherwise it is kept as it came.
PublishedAtOf(d) == IF d # <<>> /\ Len(d) = 8 THEN Iso(d) ELSE d

\* a < b on str.
RECURSIVE StrLess(_, _)
StrLess(a, b) ==
    IF a = <<>> THEN b # <<>>
    ELSE IF b = <<>> THEN FALSE
    ELSE IF a[1] # b[1] THEN a[1] < b[1]
    ELSE StrLess(Tail(a), Tail(b))

\* The list left in the order the source gave it.
Unsorted(vs) == vs

\* x put into a list sorted by published_at descending, after its equals.
RECURSIVE InsertDesc(_, _)
InsertDesc(x, vs) ==
    IF vs = <<>> THEN <<x>>
    ELSE IF StrLess(vs[1].published_at, x.published_at) THEN <<x>> \o vs
    ELSE <<vs[1]>> \o InsertDesc(x, Tail(vs))

\* sorted(videos, key=lambda x: x.published_at, reverse=True): a stable sort.
RECURSIVE SortedReverse(_)
SortedReverse(vs) ==
    IF vs = <<>> THEN <<>>
    ELSE InsertDesc(vs[Len(vs)], SortedReverse(SubSeq(vs, 1, Len(vs) - 1)))

\* What a channel holds: per upload its date and whether the playlist item is
\* of kind youtube#video; the video id is the position.
Contents ==
    UNION {[1..n -> [date : UploadDates, video : BOOLEAN]] : n \in 0..MaxEntries}

VideoInfo(id, at) == [video_id |-> id, published_at |-> at]

\* entries[:max_results]
Take(xs, n) == SubSeq(xs, 1, Min(n, Len(xs)))

\* How yt-dlp answers: with the channel's entries, or with an exception.
YtDlpOutcomes == {"entries", "raises"}

\* _fetch_videos_yt_dlp: at most max_results entries, each with its date
\* rewritten; any exception gives [].
FetchVideosYtDlp(content, max_results, yo) ==
    IF yo = "raises" THEN <<>>
    ELSE LET es == Take(content, max_results)
         IN [i \in 1..Len(es) |-> VideoInfo(i, PublishedAtOf(es[i].date))]

\* The playlistItems of one page that are videos; videoPublishedAt is the
\* server's ISO time, '' when the field is missing.
PageVideos(items, first, last) ==
    LET Pick(i) == VideoInfo(i, IF items[i].date = <<>> THEN <<>> ELSE Iso(items[i].date))
        RECURSIVE Walk(_)
        Walk(i) == IF i > last THEN <<>>
                   ELSE IF items[i].video THEN <<Pick(i)>> \o Walk(i + 1)
                   ELSE Walk(i + 1)
    IN Walk(first)

\* "while len(videos) < max_results:" one playlistItems page per turn, until
\* there is no nextPageToken or the list is long enough.
RECURSIVE ApiPages(_, _, _, _)
ApiPages(items, pos, vids, max_results) ==
    IF ~(Len(vids) < max_results) THEN vids
    ELSE LET size == Min(PageMax, max_results - Len(vids))
             last == Min(pos + size - 1, Len(items))
             got == vids \o PageVideos(items, pos, last)
             token == last < Len(items)
         IN IF ~token \/ Len(got) >= max_results THEN got
            ELSE ApiPages(items, last + 1, got, max_results)

\* How the channels request of the Data API ends: with the uploads playlist,
\* with an HTTP error status (raise_for_status), with a timeout, or with a
\* response that has no 'items' (KeyError at the subscript).
NoExc == [cls |-> "none", status |-> 0]
ApiOutcomes ==
    {NoExc, [cls |-> "Timeout", status |-> 0], [cls |-> "KeyError", status |-> 0]}
        \cup {[cls |-> "HTTPError", status |-> c] : c \in {403, 404, 500}}

\* "except requests.exceptions.RequestException as e:"
IsRequestException(e) == e.cls \in {"HTTPError", "Timeout"}

\* A handler that falls back whatever the request error is.
FallsBackAlways(e) == TRUE

\* "if not isinstance(e, requests.exceptions.HTTPError) or
\* e.response.status_code != 403:"
FallsBack(e) == e.cls # "HTTPError" \/ e.status # 403

Listed(vs, fb) == [kind |-> "list", v |-> vs, fellBack |-> fb]
ListRaised(e) == [kind |-> "raise", exc |-> e.cls, fellBack |-> FALSE]

\* _fetch_videos_api: /user/ and /c/ URLs go to yt-dlp at once; a request
\* error other than HTTP 403 falls back to yt-dlp; HTTP 403 is raised again
\* and any other exception leaves the method.
FetchVideosApi(l) ==
    IF l.url = "user" THEN Listed(FetchVideosYtDlp(l.content, l.max_results, l.yo), TRUE)
    ELSE IF l.api = NoExc THEN Listed(ApiPages(l.content, 1, <<>>, l.max_results), FALSE)
    ELSE IF IsRequestException(l.api) /\ FallsBack(l.api)
        THEN Listed(FetchVideosYtDlp(l.content, l.max_results, l.yo), TRUE)
    ELSE ListRaised(l.api)

\* A fetch_video_list without its except clause.
Uncaught(r) == r

\* "except Exception as e: ... return []"
Caught(r) == IF r.kind = "raise" THEN Listed(<<>>, r.fellBack) ELSE r

\* fetch_video_list(max_results)
fetch_video_list(l) ==
    LET r == IF l.api_key THEN FetchVideosApi(l)
             ELSE Listed(FetchVideosYtDlp(l.content, l.max_results, l.yo), TRUE)
        c == Caught(r)
    IN IF c.kind = "list" THEN [c EXCEPT !.v = SortedReverse(@)] ELSE c

ListerFrame == <<ledgerVars, cfgVars, passVars, up, procVars, th, fx, sn>>

\* A YouTubeHandler with or without an API key, a channel URL of the
\* /channel/ or of the /user/ form, and what the two sources will answer.
InitLister ==
    /\ ledger = {} /\ lhist = IdleLedgerHist
    /\ IdlePass /\ IdleUpload
    /\ pre = [off |-> TRUE] /\ main_ret = "none" /\ exit_status = "running"
    /\ faults = 0 /\ prevFailed = {}
    /\ th = [off |-> TRUE] /\ fx = [off |-> TRUE] /\ sn = [off |-> TRUE]
    /\ \E k \in BOOLEAN, u \in {"channel", "user"}, a \in ApiOutcomes,
          y \in YtDlpOutcomes, c \in Contents, m \in 0..MaxResultsCfg :
         ls = [pc |-> "call", api_key |-> k, url |-> u, api |-> a, yo |-> y,
               content |-> c, max_results |-> m, out |-> [kind |-> "none"]]

\* yt.fetch_video_list(max_results)
ListerCall ==
    /\ ls.pc = "call"
    /\ ls' = [ls EXCEPT !.pc = "done", !.out = fetch_video_list(ls)]
    /\ UNCHANGED ListerFrame

NextLister == ListerCall

SpecLister == InitLister /\ [][NextLister]_vars

\* The call used the Data API to the end.
ViaApi == ls.api_key /\ ls.url = "channel" /\ ls.api = NoExc

\* What yt-dlp would return to this call, sorted as fetch_video_list sorts.
FallbackResult == SortedReverse(FetchVideosYtDlp(ls.content, ls.max_results, ls.yo))

\* C23: fetch_video_list(maxResults) returns at most maxResults items, ordered
\* by published_at descending, every item with an empty published_at after
\* all items with a known one, for the API source and for the yt-dlp source.
C23_OrderedTruncated ==
    (ls.pc = "done" /\ ls.out.kind = "list") =>
        LET v == ls.out.v
        IN /\ Len(v) <= ls.max_results
           /\ \A i, k \in 1..Len(v) :
                 i < k => /\ ~StrLess(v[i].published_at, v[k].published_at)
                          /\ (v[i].published_at = <<>> => v[k].published_at = <<>>)

C23_Witness ==
    /\ ls.pc = "done" /\ ViaApi /\ ls.out.kind = "list"
    /\ Len(ls.content) > ls.max_results
    /\ Len(ls.out.v) = ls.max_results /\ ls.max_results >= 2
    /\ ls.content[1].date = <<>> /\ ls.content[1].video
    /\ ls.out.v[1].published_at # <<>>
    /\ ls.out.v[Len(ls.out.v)].published_at = <<>>

\* The call went to the Data API and its channels request failed.
PrimaryFailed == ls.api_key /\ ls.url = "channel" /\ ls.api # NoExc

\* C24, as claimed: whenever the primary source fails for a reason other than
\* not-found, HTTP 403 and a channel response without items included,
\* fetch_video_list invokes yt-dlp and returns its result.
C24_Original ==
    (ls.pc = "done" /\ PrimaryFailed
        /\ ls.api # [cls |-> "HTTPError", status |-> 404]) =>
            /\ ls.out.kind = "list" /\ ls.out.fellBack
            /\ ls.out.v = FallbackResult

\* C24, amended: when the primary source fails with a timeout or with an HTTP
\* error status other than 403, or the channel URL is of the /user/ form,
\* fetch_video_list invokes yt-dlp and returns its result; on HTTP 403 and on
\* a channel response without items yt-dlp is not invoked and the result is
\* the empty list.
C24_Fallback ==
    /\ (ls.pc = "done" /\ PrimaryFailed) =>
          /\ ls.out.kind = "list"
          /\ IF ls.api.cls = "Timeout"
                  \/ (ls.api.cls = "HTTPError" /\ ls.api.status # 403)
             THEN ls.out.fellBack /\ ls.out.v = FallbackResult
             ELSE ~ls.out.fellBack /\ ls.out.v = <<>>
    /\ (ls.pc = "done" /\ ls.api_key /\ ls.url = "user") =>
          ls.out.fellBack /\ ls.out.v = FallbackResult

C24_Witness ==
    /\ ls.pc = "done" /\ PrimaryFailed
    /\ ls.api = [cls |-> "HTTPError", status |-> 403]
    /\ FallbackResult # <<>>
    /\ ~ls.out.fellBack /\ ls.out.v = <<>>

\* C25: fetch_video_list never raises: for every combination of failures of the
\* primary and of the fallback source it returns a list, and when the
\* fallback fails the list is empty.
C25_NeverRaises ==
    ls.pc = "done" =>
        /\ ls.out.kind = "list"
        /\ (ls.out.fellBack /\ ls.yo = "raises") => ls.out.v = <<>>

C25_Witness ==
    /\ ls.pc = "done" /\ PrimaryFailed /\ Len(ls.content) > 0 /\ ls.max_results > 0
    /\ ls.out.fellBack /\ ls.yo = "raises"
    /\ ls.out.kind = "list" /\ ls.out.v = <<>>

(***************************************************************************)
(* The lock of the StateManager: every method body runs inside             *)
(* "with self.lock, sqlite3.connect(self.db_path) as conn:".  Threads call *)
(* the methods of the one StateManager of the process.                     *)
(***************************************************************************)
NumThreads == 2
MaxLockCalls == 3

Threads == 1..NumThreads

\* The methods of StateManager with their arguments.
LedgerCall(name, id, title, stamp) ==
    [name |-> name, id |-> id, title |-> title, stamp |-> stamp]

InitDb == LedgerCall("_init_db", 1, "t1", "s1")

LedgerCalls ==
    {LedgerCall("add_archived", i, t, s) : i \in Ids, t \in Titles, s \in Stamps}
        \cup {LedgerCall(n, i, "t1", "s1") : n \in {"is_archived", "get_video_info"},
                                             i \in Ids}
        \cup {LedgerCall("get_all_archived", 1, "t1", "s1")}

\* A lock that lets every caller in.
LockFreeAlways(holder) == TRUE

\* threading.Lock: acquire blocks while another thread holds it (0: no one).
LockFree(holder) == holder = 0

\* Threads inside a method body.
Inside == {t \in Threads : th.pc[t] \in {"in", "out"}}

LockFrame == <<lhist, cfgVars, passVars, up, procVars, ls, fx, sn>>

\* StateManager(db_path) on a new database file, about to run _init_db.
InitLock ==
    /\ ledger = {} /\ lhist = IdleLedgerHist
    /\ IdlePass /\ IdleUpload
    /\ pre = [off |-> TRUE] /\ main_ret = "none" /\ exit_status = "running"
    /\ faults = 0 /\ prevFailed = {}
    /\ ls = [off |-> TRUE] /\ fx = [off |-> TRUE] /\ sn = [off |-> TRUE]
    /\ th = [lock |-> 0, pc |-> [t \in Threads |-> "idle"],
             op |-> [t \in Threads |-> InitDb], calls |-> 0,
             made |-> FALSE, bare |-> FALSE, both |-> FALSE]

\* A thread calls a method and arrives at "with self.lock": the constructor
\* calls _init_db, and the other methods are called on the constructed object.
LockCall(t, o) ==
    /\ th.pc[t] = "idle" /\ th.calls < MaxLockCalls
    /\ IF th.made THEN o \in LedgerCalls ELSE t = 1 /\ o = InitDb
    /\ th' = [th EXCEPT !.pc[t] = "wait", !.op[t] = o, !.calls = @ + 1]
    /\ UNCHANGED <<ledger, LockFrame>>

\* self.lock.__enter__()
LockAcquire(t) ==
    /\ th.pc[t] = "wait"
    /\ LockFree(th.lock)
    /\ th' = [th EXCEPT !.pc[t] = "in", !.lock = t,
                        !.both = @ \/ \E u \in Threads : u # t /\ th.pc[u] = "wait"]
    /\ UNCHANGED <<ledger, LockFrame>>

\* The statement inside the with block: the only place where the store is
\* read or written.  bare records an access made without holding the lock.
LockExecute(t) ==
    /\ th.pc[t] = "in"
    /\ ledger' = IF th.op[t].name = "add_archived"
                 THEN add_archived(ledger, th.op[t].id, th.op[t].title, th.op[t].stamp)
                 ELSE ledger
    /\ th' = [th EXCEPT !.pc[t] = "out", !.bare = @ \/ th.lock # t]
    /\ UNCHANGED LockFrame

\* self.lock.__exit__(): the end of the with block.
LockRelease(t) ==
    /\ th.pc[t] = "out"
    /\ th' = [th EXCEPT !.pc[t] = "idle", !.lock = 0,
                        !.made = @ \/ th.op[t] = InitDb]
    /\ UNCHANGED <<ledger, LockFrame>>

NextLock ==
    \/ \E t \in Threads, o \in LedgerCalls \cup {InitDb} : LockCall(t, o)
    \/ \E t \in Threads : LockAcquire(t)
    \/ \E t \in Threads : LockExecute(t)
    \/ \E t \in Threads : LockRelease(t)

SpecLock == InitLock /\ [][NextLock]_vars

\* C26: Ledger mutual exclusion: at no time are two threads inside a Ledger
\* operation (is_archived, add_archived, get_all_archived, get_video_info,
\* _init_db) of the store, and every read and every write of the store
\* happens while the store's lock is held by the thread that makes it.
C26_MutualExclusion ==
    /\ Cardinality(Inside) <= 1
    /\ \A t \in Inside : th.lock = t
    /\ ~th.bare

C26_Witness ==
    \E t, u \in Threads :
        /\ th.pc[t] = "out" /\ th.op[t].name = "add_archived"
        /\ th.pc[u] = "wait" /\ th.op[u].name = "is_archived"
        /\ th.op[u].id = th.op[t].id
        /\ th.both

(***************************************************************************)
(* The worker pool of process_videos on its own: a pass with many jobs,    *)
(* each process_video call taken as one step from start to return.         *)
(***************************************************************************)
MaxPoolJobs == 9
MaxPoolWorkers == 9

\* MAX_WORKERS of rclone_handler.py, the cap of RcloneHandler.max_workers.
MAX_WORKERS == 8

PoolFrame == <<ledgerVars, cfgVars, shutdown_requested, mpc, phase, passNo, videos,
               yielded, success_count, failure_count, phist, up, procVars, auxVars>>

\* process_videos has submitted one process_video per video to
\* ThreadPoolExecutor(max_workers=max_workers).
InitPool ==
    /\ ledger = {} /\ lhist = IdleLedgerHist
    /\ max_retries = 1 /\ dry_run = FALSE
    /\ max_workers \in 1..MaxPoolWorkers
    /\ shutdown_requested = FALSE
    /\ mpc = "collect" /\ phase = "initial" /\ passNo = 1
    /\ \E n \in 1..MaxPoolJobs :
         /\ videos = [i \in 1..n |-> i]
         /\ jobs = [i \in 1..n |-> NewJob(i, FALSE)]
    /\ yielded = {}
    /\ success_count = 0 /\ failure_count = 0
    /\ phist = [off |-> TRUE]
    /\ IdleUpload
    /\ IdleProc

\* A running process_video call returns.
PoolJobReturns(j) ==
    /\ j \in Running
    /\ jobs' = [jobs EXCEPT ![j] = Returned(jobs[j], "failed")]
    /\ UNCHANGED PoolFrame

NextPool ==
    \/ \E j \in JobIdx : JobStart(j)
    \/ \E j \in JobIdx : PoolJobReturns(j)

SpecPool == InitPool /\ [][NextPool]_vars

\* C28: bounded worker pool: at every moment the number of jobs of a pass that
\* are executing at once (started on a worker, not yet returned) is at most
\* min(configured max_workers, hard cap), whatever worker count is configured.
C28_PoolBound ==
    mpc = "collect" => Cardinality(Running) <= Min(max_workers, MAX_WORKERS)

(***************************************************************************)
(* One process_video frame with download_video taken attempt by attempt,   *)
(* next to the signal handler.                                             *)
(***************************************************************************)
FetchFrame == <<lhist, cfgVars, shutdown_requested, mpc, phase, passNo, videos,
                jobs, yielded, success_count, failure_count, phist, up, procVars,
                ls, th, sn>>

\* The cap in "retry_delay = min(2 ** attempt, 60)".
FetchBackoffCap == 60

\* MIN_RETRY_DELAY and MAX_RETRY_DELAY of rclone_handler.py, in seconds.
MIN_RETRY_DELAY == 1
MAX_RETRY_DELAY == 60

\* A backoff that grows by one second per attempt.
FetchBackoffLinear(attempt) == Min(attempt + 1, FetchBackoffCap)

\* "retry_delay = min(2 ** attempt, 60)" of download_video.
FetchBackoff(attempt) == Min(2 ^ attempt, FetchBackoffCap)

\* "delay = min(MIN_RETRY_DELAY * (2 ** attempt), MAX_RETRY_DELAY)" of
\* upload_file, before the jitter.
UploadBackoff(attempt) == Min(MIN_RETRY_DELAY * (2 ^ attempt), MAX_RETRY_DELAY)

\* A worker has just entered process_video(video, ..., max_retries) in a pass.
\* slept: the backoff delays slept by the running download_video call;
\* onDisk: a file of the job is in the download directory.
InitFetch ==
    /\ ledger = {} /\ lhist = IdleLedgerHist
    /\ max_retries \in 0..MaxRetriesCfg /\ max_workers = 1 /\ dry_run = FALSE
    /\ shutdown_requested = FALSE
    /\ mpc = "collect" /\ phase = "initial" /\ passNo = 1
    /\ videos = <<1>> /\ jobs = <<>> /\ yielded = {}
    /\ success_count = 0 /\ failure_count = 0
    /\ phist = [off |-> TRUE]
    /\ IdleUpload
    /\ pre = [off |-> TRUE] /\ main_ret = "none" /\ exit_status = "running"
    /\ faults = 0 /\ prevFailed = {}
    /\ ls = [off |-> TRUE] /\ th = [off |-> TRUE] /\ sn = [off |-> TRUE]
    /\ fx = [pc |-> "loop", attempt |-> 1, i |-> 0, calls |-> 0, tries |-> 0,
             lateCalls |-> 0, lateRetries |-> 0, res |-> "none",
             slept |-> <<>>, onDisk |-> FALSE, allOk |-> TRUE,
             nUp |-> 0, upFail |-> FALSE, removed |-> "no"]

\* Head of an attempt of process_video, as in JobLoop.  lateCalls counts the
\* download_video calls made by a head that ran with the flag set.
FetchLoop ==
    /\ fx.pc = "loop"
    /\ fx' = IF fx.attempt \notin AttemptRange(max_retries)
                 THEN [fx EXCEPT !.pc = "done", !.res = "failed"]
             ELSE IF ShutdownCheck(shutdown_requested)
                 THEN [fx EXCEPT !.pc = "done", !.res = "shutdown"]
             ELSE [fx EXCEPT !.pc = "download", !.i = 0, !.calls = @ + 1,
                             !.slept = <<>>,
                             !.lateCalls = IF shutdown_requested THEN @ + 1 ELSE @]
    /\ UNCHANGED <<ledger, FetchFrame>>

\* One turn of "for attempt in range(max_retries + 1):" in download_video:
\* the backoff sleep of a retry and ydl.extract_info.  The loop has no test
\* of the flag.  lateRetries counts the retries begun with the flag set.
FetchAttempt ==
    /\ fx.pc = "download"
    /\ IF fx.i \notin DownloadAttempts(DownloadRetries)
       THEN fx' = NextAttempt([fx EXCEPT !.allOk = FALSE])
       ELSE \E o \in FetchOutcomes :
              LET f == [fx EXCEPT !.tries = @ + 1,
                                  !.slept = IF fx.i > 0
                                            THEN Append(@, FetchBackoff(fx.i)) ELSE @,
                                  !.lateRetries = IF fx.i > 0 /\ shutdown_requested
                                                  THEN @ + 1 ELSE @]
              IN fx' = IF o = "fail" THEN [f EXCEPT !.i = @ + 1]
                       ELSE IF FetchFailed(o) THEN NextAttempt([f EXCEPT !.allOk = FALSE])
                       ELSE [f EXCEPT !.pc = "post", !.onDisk = TRUE]
    /\ UNCHANGED <<ledger, FetchFrame>>

\* The rest of the attempt, as in JobPost: remote subpath, upload_file,
\* add_archived, then os.remove inside its own try block, which may fail.
FetchPost ==
    /\ fx.pc = "post"
    /\ IF ~RemotePathEvaluates
       THEN fx' = NextAttempt(fx) /\ UNCHANGED ledger
       ELSE \E o \in UploadOutcomes, rm \in BOOLEAN :
              LET upl == [fx EXCEPT !.nUp = @ + 1, !.upFail = @ \/ o # "success"]
              IN IF o = "success" /\ CommitCallBinds
                 THEN /\ ledger' = add_archived(ledger, 1, "t1", "s1")
                      /\ fx' = [upl EXCEPT !.pc = "done", !.res = "success",
                                           !.onDisk = ~rm,
                                           !.removed = IF rm THEN "after_commit"
                                                       ELSE "failed"]
                 ELSE fx' = NextAttempt(upl) /\ UNCHANGED ledger
    /\ UNCHANGED FetchFrame

NextFetch ==
    \/ Shutdown
    \/ FetchLoop
    \/ FetchAttempt
    \/ FetchPost

SpecFetch == InitFetch /\ [][NextFetch]_vars

\* C29: cooperative cancellation at every between-attempt checkpoint: after the
\* process-wide shutdown flag is set, no new fetch attempt is started, neither
\* by the attempt loop of the job nor by the retry loop inside the Fetcher;
\* only an attempt already in flight may complete.
C29_NoAttemptAfterShutdown ==
    fx.lateCalls = 0 /\ fx.lateRetries = 0

(***************************************************************************)
(* YouTubeHandler.sanitize_filename.  A title is the sequence of its       *)
(* characters; the titles tried are made of up to MaxRuns runs of one      *)
(* character each, long enough to pass max_length.                         *)
(***************************************************************************)
MaxRuns == 3

\* "max_length = 150"
max_length == 150

\* The characters of r'[\\/:*?\"<>|]'.
InvalidChars == {"\\", "/", ":", "*", "?", "\"", "<", ">", "|"}

Alphabet == {"a", " ", "/", "?"}
RunLengths == {1, 2, 149, 150}
TitleRuns == UNION {[1..n -> [ch : Alphabet, n : RunLengths]] : n \in 0..MaxRuns}

\* The title that a sequence of runs stands for.
RECURSIVE Expand(_)
Expand(runs) ==
    IF runs = <<>> THEN <<>>
    ELSE [i \in 1..runs[1].n |-> runs[1].ch] \o Expand(Tail(runs))

\* re.sub(r'[\\/:*?\"<>|]', '_', title)
ReSub(t) == [i \in 1..Len(t) |-> IF t[i] \in InvalidChars THEN "_" ELSE t[i]]

\* s.rsplit(' ', 1)[0]: what stands before the last space, or all of s when
\* it has no space.
RSplitHead(t) ==
    LET sp == {i \in 1..Len(t) : t[i] = " "}
    IN IF sp = {} THEN t
       ELSE SubSeq(t, 1, (CHOOSE i \in sp : \A k \in sp : k <= i) - 1)

\* A sanitize_filename that never truncates.
TruncateNever(t) == t

\* "if len(sanitized) > max_length: sanitized = sanitized[:max_length]
\* .rsplit(' ', 1)[0]"
Truncate(t) ==
    IF Len(t) > max_length THEN RSplitHead(SubSeq(t, 1, max_length)) ELSE t

\* s.strip()
Strip(t) ==
    LET ink == {i \in 1..Len(t) : t[i] # " "}
    IN IF ink = {} THEN <<>>
       ELSE SubSeq(t, CHOOSE i \in ink : \A k \in ink : i <= k,
                      CHOOSE i \in ink : \A k \in ink : k <= i)

sanitize_filename(title) == Strip(Truncate(ReSub(title)))

NameFrame == <<ledgerVars, cfgVars, passVars, up, procVars, ls, th, fx>>

InitName ==
    /\ ledger = {} /\ lhist = IdleLedgerHist
    /\ IdlePass /\ IdleUpload
    /\ pre = [off |-> TRUE] /\ main_ret = "none" /\ exit_status = "running"
    /\ faults = 0 /\ prevFailed = {}
    /\ ls = [off |-> TRUE] /\ th = [off |-> TRUE] /\ fx = [off |-> TRUE]
    /\ \E r \in TitleRuns : sn = [pc |-> "call", title |-> r, out |-> <<>>]

\* safe_title = self.sanitize_filename(title)
SanitizeCall ==
    /\ sn.pc = "call"
    /\ sn' = [sn EXCEPT !.pc = "done", !.out = sanitize_filename(Expand(sn.title))]
    /\ UNCHANGED NameFrame

NextName == SanitizeCall

SpecName == InitName /\ [][NextName]_vars

\* C30: sanitize_filename(title) returns, for every title, a string that
\* contains none of the characters \ / : * ? " < > | and whose length is at
\* most 150.
C30_SafeName ==
    sn.pc = "done" =>
        /\ \A i \in 1..Len(sn.out) : sn.out[i] \notin InvalidChars
        /\ Len(sn.out) <= max_length

C30_Witness ==
    /\ sn.pc = "done"
    /\ Len(Expand(sn.title)) > max_length
    /\ \E i \in 1..Len(sn.title) : sn.title[i].ch \in InvalidChars
    /\ \E i \in 1..Len(sn.out) : sn.out[i] = "_"
    /\ \E i \in 1..Len(sn.title) : sn.title[i].ch = " "
    /\ Len(sn.out) < max_length /\ Len(sn.out) > 2

(***************************************************************************)
(* Claims C31, C32, C34 and C37 on one process_video frame, under          *)
(* SpecFetch.                                                              *)
(***************************************************************************)
MaxBackoffIdx == 8

C32_CommitBeforeCleanup ==
    /\ fx.removed # "no" => is_archived(ledger, 1)
    /\ (fx.pc = "done" /\ ~shutdown_requested /\ fx.calls > 0
           /\ fx.allOk /\ ~fx.upFail) =>
              /\ fx.res = "success" /\ is_archived(ledger, 1)
              /\ fx.removed \in {"after_commit", "failed"}

C37_NoFileLeft ==
    fx.pc = "done" => ~fx.onDisk

(***************************************************************************)
(* Claims C33 and C35 on one upload_file call, under SpecUpload.           *)
(***************************************************************************)

\* The call has returned an UploadResult with success = true.
ReturnedSuccess == up.pc = "done" /\ up.out.kind = "result" /\ up.out.success

CountedFailures == {j \in phist.counted : jobs[j].res # "success"}

C38_ExclusivePaths ==
    \A j, k \in Running : j # k => jobs[j].id # jobs[k].id

(***************************************************************************)
(* Claim C39 on the passes, under SpecLive.                                *)
(***************************************************************************)

\* The attempts of the jobs of a pass stay within their bounds, and when
\* process_videos has returned every job submitted has a terminal result.
BoundedAttempts ==
    /\ \A j \in JobIdx :
          /\ jobs[j].nCalls <= max_retries
          /\ jobs[j].tries <= DownloadRetries + 1
          /\ jobs[j].nUp <= jobs[j].nCalls
    /\ mpc = "after" => \A j \in JobIdx : jobs[j].st \in {"returned", "cancelled"}

(***************************************************************************)
(* C39: every pass terminates.  With every external call returning, each   *)
(* job makes at most max_retries download_video calls of at most           *)
(* DownloadRetries + 1 attempts each and at most one upload per call, and  *)
(* a process_videos call that has started returns (or raises), with every  *)
(* submitted job at a terminal result, with or without a shutdown request. *)
(***************************************************************************)
C39_PassTerminates ==
    /\ []BoundedAttempts
    /\ (mpc \in {"process", "collect", "join"})
          ~> (mpc \notin {"process", "collect", "join"})

\* process_videos has returned from a pass without a shutdown request in
\* which a job used up its attempts, and from one cut short by shutdown.
C39_Witness ==
    /\ mpc = "after" /\ max_retries = MaxRetriesCfg /\ Len(jobs) = MaxVideos
    /\ \E j \in JobIdx : jobs[j].res = "failed" /\ jobs[j].nCalls = max_retries
    /\ \E j \in JobIdx : jobs[j].res = "shutdown"

(***************************************************************************)
(* C40, as claimed: without shutdown, an item that failed in one pass, is  *)
(* listed again in the next and then has every fetch leave a file and no   *)
(* upload fail, is recorded in the Ledger by the end of that pass.         *)
(***************************************************************************)
C40_EventualArchival ==
    (PassOver /\ ~dry_run /\ passNo >= 2) =>
        \A j \in JobIdx :
            (jobs[j].id \in prevFailed /\ jobs[j].nCalls > 0
                /\ jobs[j].allOk /\ ~jobs[j].upFail) =>
                    is_archived(ledger, jobs[j].id)

=============================================================================
